---------------------------- MODULE Spec2Model ----------------------------
(***************************************************************************)
(* openmpt-charset: for every file named on the command line, the module   *)
(* message (UTF-8 text) is decoded to code points, every code point is     *)
(* passed through the code page 437 table, the result is re-encoded, and   *)
(* the lines on which the two texts differ are printed side by side.       *)
(*                                                                         *)
(* Text is modelled as sequences of byte values 0..255, code points as     *)
(* natural numbers.  Three state machines share the module:                *)
(*   Spec      main / process_file / check_messages                        *)
(*   SpecCount the loop of get_grapheme_count, one iteration per step      *)
(*   SpecTable cp437_to_unicode applied to one input                       *)
(***************************************************************************)
EXTENDS Integers, Sequences, FiniteSets, TLC

VARIABLES
    argv,               \* main: the filename arguments argv[1..argc-1], each with the file behind it
    i,                  \* main: the loop index
    pc,                 \* main: "main" | "done" | "undefined"
    status,             \* main: the exit status, -1 while running
    cout,               \* everything written to std::cout
    cerr,               \* everything written to std::cerr
    attempted,          \* history: the filenames process_file was called with
    diff_only,          \* the static flag of line 43
    incomplete_ok,      \* the standard library: what from_bytes does with an incomplete last character
    message,            \* check_messages: locals of the latest call
    new_message,
    message_lines,
    new_message_lines,
    s,                  \* get_grapheme_count: the argument
    it,                 \* get_grapheme_count: the iterator, as an offset from s.begin()
    n,                  \* get_grapheme_count: the counter
    gpc,                \* get_grapheme_count: "idle" | "loop" | "returned" | "crashed"
    arg,                \* cp437_to_unicode: the argument of the call
    ret,                \* cp437_to_unicode: the value returned
    tpc                 \* cp437_to_unicode: "idle" | "call" | "returned"

dvars == <<argv, i, pc, status, cout, cerr, attempted, diff_only, incomplete_ok,
           message, new_message, message_lines, new_message_lines>>
gvars == <<s, it, n, gpc>>
tvars == <<arg, ret, tpc>>
vars == <<dvars, gvars, tvars>>

---------------------------------------------------------------------------
(* Bounds of the model.                                                    *)

\* most filename arguments of a run with several files
MaxFiles == 3
\* most bytes of an enumerated message
MaxLen == 4
\* most bytes of an argument of get_grapheme_count in SpecCount
MaxBytes == 4
\* how far past s.end() an overrunning iterator is followed
MaxOverread == 2
\* largest argument of cp437_to_unicode in SpecTable
MaxCode == 300

(* Constants of the program.                                               *)

\* the column the separator is aligned to
Width == 80
\* '\n'
NL == 10

\* Bytes the enumerated messages are made of: SOH (remapped, one byte),
\* '\n', 'a', a continuation byte, and the lead bytes of a 2-byte and of a
\* 3-byte character.  0xC2 0x81 is U+0081, 0xE2 0x81 0x81 is U+2041.
MessageBytes == {1, 10, 97, 129, 194, 226}

\* Bytes the arguments of get_grapheme_count are made of in SpecCount; 0xF1
\* leads a 4-byte character (0xF1 0x81 0x81 0x81 is U+41041).
CountBytes == {97, 129, 194, 226, 241}

BSeq(S, len) == UNION {[1..k -> S] : k \in 0..len}

---------------------------------------------------------------------------
(* std::wstring_convert<std::codecvt_utf8<char32_t>, char32_t>             *)

IsCont(b) == b \div 64 = 2

DecodeError == [ok |-> FALSE, cps |-> <<>>]

\* one more code point in front of what the rest of the input decodes to
Decoded(cp, rest) ==
    IF rest.ok THEN [ok |-> TRUE, cps |-> <<cp>> \o rest.cps] ELSE DecodeError

\* the bytes of the character a lead byte starts; 0 for a byte that starts
\* none (a continuation byte, 0xC0, 0xC1, 0xF5 and above)
SequenceLength(c1) ==
    IF c1 < 128 THEN 1
    ELSE IF c1 < 194 THEN 0
    ELSE IF c1 < 224 THEN 2
    ELSE IF c1 < 240 THEN 3
    ELSE IF c1 < 245 THEN 4
    ELSE 0

\* from_bytes from offset k.  A byte that starts no character, a byte that
\* should be a continuation byte and is not, an overlong form and a value
\* above 0x10FFFF are conversion errors.  When fewer bytes are left than
\* the lead byte asks for, the facet reports a partial conversion: with
\* `lenient` the characters converted so far are returned (libstdc++),
\* without it the call fails like on any other malformed input.
\* Surrogates are converted like any other 3-byte character.
RECURSIVE from_bytes(_, _, _)
from_bytes(b, k, lenient) ==
    IF k > Len(b) THEN [ok |-> TRUE, cps |-> <<>>]
    ELSE LET c1 == b[k]
             len == SequenceLength(c1)
         IN
      IF len = 0 THEN DecodeError
      ELSE IF k + len - 1 > Len(b)
      THEN (IF lenient THEN [ok |-> TRUE, cps |-> <<>>] ELSE DecodeError)
      ELSE IF len = 1 THEN Decoded(c1, from_bytes(b, k + 1, lenient))
      ELSE IF len = 2 THEN
        IF ~IsCont(b[k+1]) THEN DecodeError
        ELSE Decoded((c1 - 192) * 64 + (b[k+1] - 128), from_bytes(b, k + 2, lenient))
      ELSE IF len = 3 THEN
        IF \/ ~IsCont(b[k+1])
           \/ ~IsCont(b[k+2])
           \/ (c1 = 224 /\ b[k+1] < 160)
        THEN DecodeError
        ELSE Decoded((c1 - 224) * 4096 + (b[k+1] - 128) * 64 + (b[k+2] - 128),
                     from_bytes(b, k + 3, lenient))
      ELSE
        IF \/ ~IsCont(b[k+1])
           \/ ~IsCont(b[k+2])
           \/ ~IsCont(b[k+3])
           \/ (c1 = 240 /\ b[k+1] < 144)
           \/ (c1 = 244 /\ b[k+1] >= 144)
        THEN DecodeError
        ELSE Decoded((c1 - 240) * 262144 + (b[k+1] - 128) * 4096
                         + (b[k+2] - 128) * 64 + (b[k+3] - 128),
                     from_bytes(b, k + 4, lenient))

utf8_to_codepoints(b) == from_bytes(b, 1, incomplete_ok)

EncodeOne(cp) ==
    IF cp < 128 THEN <<cp>>
    ELSE IF cp < 2048 THEN <<192 + (cp \div 64), 128 + (cp % 64)>>
    ELSE IF cp < 65536 THEN
        <<224 + (cp \div 4096), 128 + ((cp \div 64) % 64), 128 + (cp % 64)>>
    ELSE <<240 + (cp \div 262144), 128 + ((cp \div 4096) % 64),
           128 + ((cp \div 64) % 64), 128 + (cp % 64)>>

RECURSIVE to_bytes(_, _)
to_bytes(cps, k) ==
    IF k > Len(cps) THEN <<>> ELSE EncodeOne(cps[k]) \o to_bytes(cps, k + 1)

\* to_bytes throws std::range_error on a value above 0x10FFFF.
codepoints_to_utf8(codepoints) ==
    IF \A k \in 1..Len(codepoints) : codepoints[k] <= 1114111
    THEN [ok |-> TRUE, bytes |-> to_bytes(codepoints, 1)]
    ELSE [ok |-> FALSE, bytes |-> <<>>]

---------------------------------------------------------------------------
(* cp437_to_unicode: the switch of lines 63-107, case by case.             *)

cp437_switch(c) ==
    CASE
         c = 0 -> 9216 [] c = 1 -> 9786 [] c = 2 -> 9787 [] c = 3 -> 9829
      [] c = 4 -> 9830 [] c = 5 -> 9827 [] c = 6 -> 9824 [] c = 7 -> 8226
      [] c = 8 -> 9688 [] c = 9 -> 9675 [] c = 11 -> 9794
      [] c = 12 -> 9792 [] c = 13 -> 9834 [] c = 14 -> 9835 [] c = 15 -> 9788
      [] c = 16 -> 9658 [] c = 17 -> 9668 [] c = 18 -> 8597 [] c = 19 -> 8252
      [] c = 20 -> 182 [] c = 21 -> 167 [] c = 22 -> 9644 [] c = 23 -> 8616
      [] c = 24 -> 8593 [] c = 25 -> 8595 [] c = 26 -> 8594 [] c = 27 -> 8592
      [] c = 28 -> 8735 [] c = 29 -> 8596 [] c = 30 -> 9650 [] c = 31 -> 9660
      [] c = 127 -> 8962
      [] c = 128 -> 199 [] c = 129 -> 252 [] c = 130 -> 233 [] c = 131 -> 226
      [] c = 132 -> 228 [] c = 133 -> 224 [] c = 134 -> 229 [] c = 135 -> 231
      [] c = 136 -> 234 [] c = 137 -> 235 [] c = 138 -> 232 [] c = 139 -> 239
      [] c = 140 -> 238 [] c = 141 -> 236 [] c = 142 -> 196 [] c = 143 -> 197
      [] c = 144 -> 201 [] c = 145 -> 230 [] c = 146 -> 198 [] c = 147 -> 244
      [] c = 148 -> 246 [] c = 149 -> 242 [] c = 150 -> 251 [] c = 151 -> 249
      [] c = 152 -> 255 [] c = 153 -> 214 [] c = 154 -> 220 [] c = 155 -> 162
      [] c = 156 -> 163 [] c = 157 -> 165 [] c = 158 -> 8359 [] c = 159 -> 402
      [] c = 160 -> 225 [] c = 161 -> 237 [] c = 162 -> 243 [] c = 163 -> 250
      [] c = 164 -> 241 [] c = 165 -> 209 [] c = 166 -> 170 [] c = 167 -> 186
      [] c = 168 -> 191 [] c = 169 -> 8976 [] c = 170 -> 172 [] c = 171 -> 189
      [] c = 172 -> 188 [] c = 173 -> 161 [] c = 174 -> 171 [] c = 175 -> 187
      [] c = 176 -> 9617 [] c = 177 -> 9618 [] c = 178 -> 9619 [] c = 179 -> 9474
      [] c = 180 -> 9508 [] c = 181 -> 9569 [] c = 182 -> 9570 [] c = 183 -> 9558
      [] c = 184 -> 9557 [] c = 185 -> 9571 [] c = 186 -> 9553 [] c = 187 -> 9559
      [] c = 188 -> 9565 [] c = 189 -> 9564 [] c = 190 -> 9563 [] c = 191 -> 9488
      [] c = 192 -> 9492 [] c = 193 -> 9524 [] c = 194 -> 9516 [] c = 195 -> 9500
      [] c = 196 -> 9472 [] c = 197 -> 9532 [] c = 198 -> 9566 [] c = 199 -> 9567
      [] c = 200 -> 9562 [] c = 201 -> 9556 [] c = 202 -> 9577 [] c = 203 -> 9574
      [] c = 204 -> 9568 [] c = 205 -> 9552 [] c = 206 -> 9580 [] c = 207 -> 9575
      [] c = 208 -> 9576 [] c = 209 -> 9572 [] c = 210 -> 9573 [] c = 211 -> 9561
      [] c = 212 -> 9560 [] c = 213 -> 9554 [] c = 214 -> 9555 [] c = 215 -> 9579
      [] c = 216 -> 9578 [] c = 217 -> 9496 [] c = 218 -> 9484 [] c = 219 -> 9608
      [] c = 220 -> 9604 [] c = 221 -> 9612 [] c = 222 -> 9616 [] c = 223 -> 9600
      [] c = 224 -> 945 [] c = 225 -> 223 [] c = 226 -> 915 [] c = 227 -> 960
      [] c = 228 -> 931 [] c = 229 -> 963 [] c = 230 -> 181 [] c = 231 -> 964
      [] c = 232 -> 934 [] c = 233 -> 920 [] c = 234 -> 937 [] c = 235 -> 948
      [] c = 236 -> 8734 [] c = 237 -> 966 [] c = 238 -> 949 [] c = 239 -> 8745
      [] c = 240 -> 8801 [] c = 241 -> 177 [] c = 242 -> 8805 [] c = 243 -> 8804
      [] c = 244 -> 8992 [] c = 245 -> 8993 [] c = 246 -> 247 [] c = 247 -> 8776
      [] c = 248 -> 176 [] c = 249 -> 8729 [] c = 250 -> 183 [] c = 251 -> 8730
      [] c = 252 -> 8319 [] c = 253 -> 178 [] c = 254 -> 9632 [] c = 255 -> 160
      [] OTHER -> c

\* the switch with the commented-out case 0x0A compiled in
cp437_with_newline_glyph(c) == IF c = 10 THEN 9689 ELSE cp437_switch(c)

\* the switch with its last case, 0xFF, left out
cp437_without_last_case(c) == IF c = 255 THEN c ELSE cp437_switch(c)

\* the switch with the values of 0x81 and 0x96 exchanged
cp437_swapped_u_glyphs(c) ==
    IF c = 129 THEN 251 ELSE IF c = 150 THEN 252 ELSE cp437_switch(c)

cp437_to_unicode(c) == cp437_switch(c)

---------------------------------------------------------------------------
(* split: std::getline until the stream fails.  A getline that finds the   *)
(* stream at its end extracts nothing and fails, so the text after the     *)
(* last delimiter is a token only when it is not empty.                    *)

\* the offset of the first delimiter at or after k, or Len(str) + 1
FindDelimiter(str, delimiter, k) ==
    LET stops == {j \in k..(Len(str) + 1) : j = Len(str) + 1 \/ str[j] = delimiter}
    IN  CHOOSE j \in stops : \A m \in stops : j <= m

RECURSIVE getline_loop(_, _, _)
getline_loop(str, delimiter, k) ==
    IF k > Len(str) THEN <<>>
    ELSE LET j == FindDelimiter(str, delimiter, k) IN
         <<SubSeq(str, k, j - 1)>> \o getline_loop(str, delimiter, j + 1)

\* a split that also yields the empty text after a final delimiter
RECURSIVE getline_loop_keeping_last(_, _, _)
getline_loop_keeping_last(str, delimiter, k) ==
    IF k > Len(str) THEN (IF Len(str) > 0 /\ k = Len(str) + 1 /\ str[Len(str)] = delimiter
                          THEN <<<<>>>> ELSE <<>>)
    ELSE LET j == FindDelimiter(str, delimiter, k) IN
         <<SubSeq(str, k, j - 1)>> \o getline_loop_keeping_last(str, delimiter, j + 1)

split_keeping_last(str, delimiter) == getline_loop_keeping_last(str, delimiter, 1)

split(str, delimiter) == getline_loop(str, delimiter, 1)

---------------------------------------------------------------------------
(* get_grapheme_count                                                      *)

\* The inner loop of lines 132-134: bytes grows while bits 7 and 6 of
\* (*it << bytes) are 1 and 0.  *it is a char; whether char is signed or
\* not, bits 7 and 6 of the shifted int are bits 7-bytes and 6-bytes of the
\* byte, so the byte value 0..255 decides.
RECURSIVE ShiftLoop(_, _)
ShiftLoop(byte, bytes) ==
    IF ((byte * 2^bytes) \div 64) % 4 = 2 THEN ShiftLoop(byte, bytes + 1) ELSE bytes

\* one iteration of the outer loop: how far `it` moves (lines 129-137)
Advance(byte) == IF (byte \div 128) % 2 # 0 THEN ShiftLoop(byte, 1) ELSE 1

\* The whole loop from offset k: how many iterations it makes.  overrun:
\* `it` went past s.end(), so the test `it != s.end()` of line 128 stays
\* true and line 131 reads outside the string: the call has no defined
\* result.
RECURSIVE CountFrom(_, _)
CountFrom(str, k) ==
    IF k = Len(str) THEN [n |-> 0, overrun |-> FALSE]
    ELSE IF k > Len(str) THEN [n |-> 0, overrun |-> TRUE]
    ELSE LET rest == CountFrom(str, k + Advance(str[k + 1]))
         IN  [n |-> rest.n + 1, overrun |-> rest.overrun]

get_grapheme_count(str) == CountFrom(str, 0)

---------------------------------------------------------------------------
(* check_messages                                                          *)

Header(filename) ==
    [kind |-> "header", filename |-> filename, left |-> <<>>, padding |-> 0, right |-> <<>>]
Row(left, padding, right) ==
    [kind |-> "row", filename |-> 0, left |-> left, padding |-> padding, right |-> right]
Blank ==
    [kind |-> "blank", filename |-> 0, left |-> <<>>, padding |-> 0, right |-> <<>>]

\* lines 176-183: one row
print_row(line, new_line) ==
    LET graphemes == get_grapheme_count(line).n
        padding == IF graphemes < Width THEN Width - graphemes ELSE 0
    IN  Row(line, padding, new_line)

\* whether the loop gets to index k and prints it
Printed(lines, new_lines, k) == ~(diff_only /\ lines[k] = new_lines[k])

\* the printed indices on whose line get_grapheme_count runs past the end
Overruns(lines, new_lines) ==
    {k \in 1..Len(lines) :
        Printed(lines, new_lines, k) /\ get_grapheme_count(lines[k]).overrun}

\* the index the loop stops after: the last one, or the one before the
\* first call of get_grapheme_count that has no defined result
LastDefined(lines, new_lines) ==
    IF Overruns(lines, new_lines) = {} THEN Len(lines)
    ELSE (CHOOSE k \in Overruns(lines, new_lines) :
              \A m \in Overruns(lines, new_lines) : k <= m) - 1

\* a loop whose skip test is `diff_only || equal` instead of `&&`
RECURSIVE print_lines_or(_, _, _, _)
print_lines_or(lines, new_lines, k, last) ==
    IF k > last THEN <<>>
    ELSE IF diff_only \/ lines[k] = new_lines[k]
      THEN print_lines_or(lines, new_lines, k + 1, last)
      ELSE <<print_row(lines[k], new_lines[k])>>
               \o print_lines_or(lines, new_lines, k + 1, last)

\* lines 171-184: the loop over the line indices, from index k to `last`
RECURSIVE print_lines(_, _, _, _)
print_lines(lines, new_lines, k, last) ==
    IF k > last THEN <<>>
    ELSE IF diff_only /\ lines[k] = new_lines[k]
      THEN print_lines(lines, new_lines, k + 1, last)
      ELSE <<print_row(lines[k], new_lines[k])>>
               \o print_lines(lines, new_lines, k + 1, last)

\* std::transform(..., cp437_to_unicode)
transform(codepoints) == [k \in 1..Len(codepoints) |-> cp437_to_unicode(codepoints[k])]

\* What a call leaves behind: what it wrote to std::cout, the what() of the
\* exception it threw ("" when it returned), whether it ran into undefined
\* behaviour, and its locals as far as they were computed.
Outcome(out, what, undefined, msg, new_msg, lines, new_lines) ==
    [out |-> out, what |-> what, undefined |-> undefined, message |-> msg,
     new_message |-> new_msg, message_lines |-> lines, new_message_lines |-> new_lines]

\* lines 169-186.  When get_grapheme_count runs past the end of a line the
\* behaviour is undefined from that call on: what was written before it is
\* kept and nothing after it is modelled.
report(filename, msg, new_msg, lines, new_lines) ==
    LET last == LastDefined(lines, new_lines)
        rows == print_lines(lines, new_lines, 1, last)
    IN  IF last < Len(lines)
        THEN Outcome(<<Header(filename)>> \o rows, "", TRUE, msg, new_msg, lines, new_lines)
        ELSE Outcome(<<Header(filename)>> \o rows \o <<Blank>>, "", FALSE,
                     msg, new_msg, lines, new_lines)

\* check_messages without the early return of lines 165-167
check_messages_always_reporting(filename, mod) ==
    LET msg == mod.message_raw IN
    IF msg = <<>> THEN Outcome(<<>>, "", FALSE, msg, <<>>, <<>>, <<>>)
    ELSE LET codepoints == utf8_to_codepoints(msg) IN
      IF ~codepoints.ok
      THEN Outcome(<<>>, "wstring_convert::from_bytes", FALSE, msg, <<>>, <<>>, <<>>)
      ELSE LET new_msg == codepoints_to_utf8(transform(codepoints.cps)).bytes
               lines == split(msg, NL)
               new_lines == split(new_msg, NL)
           IN IF Len(lines) # Len(new_lines)
              THEN Outcome(<<>>, "internal error: size mismatch", FALSE,
                           msg, new_msg, lines, new_lines)
              ELSE report(filename, msg, new_msg, lines, new_lines)

check_messages(filename, mod) ==
    LET msg == mod.message_raw IN
    IF msg = <<>> THEN Outcome(<<>>, "", FALSE, msg, <<>>, <<>>, <<>>)
    ELSE LET codepoints == utf8_to_codepoints(msg) IN
      IF ~codepoints.ok
      THEN Outcome(<<>>, "wstring_convert::from_bytes", FALSE, msg, <<>>, <<>>, <<>>)
      ELSE LET converted == codepoints_to_utf8(transform(codepoints.cps)) IN
        IF ~converted.ok
        THEN Outcome(<<>>, "wstring_convert::to_bytes", FALSE, msg, <<>>, <<>>, <<>>)
        ELSE LET new_msg == converted.bytes
                 lines == split(msg, NL)
                 new_lines == split(new_msg, NL)
             IN
          IF Len(lines) # Len(new_lines)
          THEN Outcome(<<>>, "internal error: size mismatch", FALSE,
                       msg, new_msg, lines, new_lines)
          ELSE IF msg = new_msg
          THEN Outcome(<<>>, "", FALSE, msg, new_msg, lines, new_lines)
          ELSE report(filename, msg, new_msg, lines, new_lines)

---------------------------------------------------------------------------
(* process_file and main                                                   *)

\* what std::cerr gets for a caught exception (line 197)
CantOpen(filename, what) == [text |-> "can't open ", filename |-> filename, what |-> what]

\* What process_file does with the file behind a filename: the module
\* constructor throws when libopenmpt rejects the file, otherwise
\* check_messages runs; every std::exception is caught and reported.
Effect(r, err) ==
    [out |-> r.out, err |-> err, undefined |-> r.undefined,
     message |-> r.message, new_message |-> r.new_message,
     message_lines |-> r.message_lines, new_message_lines |-> r.new_message_lines]

Rejected == Outcome(<<>>, "openmpt::exception", FALSE, <<>>, <<>>, <<>>, <<>>)

process_file(filename, file) ==
    LET r == IF file.parse_ok THEN check_messages(filename, file) ELSE Rejected
    IN  Effect(r, IF r.what # "" THEN <<CantOpen(filename, r.what)>> ELSE <<>>)

---------------------------------------------------------------------------
(* The files behind the filename arguments.                                *)

File(parse_ok, message_raw) == [parse_ok |-> parse_ok, message_raw |-> message_raw]

\* a file libopenmpt rejects
BadFile == File(FALSE, <<>>)

\* every message of at most MaxLen bytes
Messages == BSeq(MessageBytes, MaxLen)

\* the files of the runs with several arguments: rejected, no message,
\* plain ASCII, a stray byte 0x81, U+0081, SOH before the lead byte of an
\* incomplete character, and a second line that is such a lead byte
FewFiles ==
    {BadFile, File(TRUE, <<>>), File(TRUE, <<97>>), File(TRUE, <<129>>),
     File(TRUE, <<194, 129>>), File(TRUE, <<1, 194>>), File(TRUE, <<97, 10, 194>>)}

argc == Len(argv) + 1

DriverIdle ==
    /\ argv = <<>> /\ i = 1 /\ pc = "idle" /\ status = -1
    /\ cout = <<>> /\ cerr = <<>> /\ attempted = <<>>
    /\ diff_only = TRUE /\ incomplete_ok = TRUE
    /\ message = <<>> /\ new_message = <<>>
    /\ message_lines = <<>> /\ new_message_lines = <<>>

CountIdle == s = <<>> /\ it = 0 /\ n = 0 /\ gpc = "idle"

TableIdle == arg = 0 /\ ret = 0 /\ tpc = "idle"

\* main is entered with one file holding any message, or with up to
\* MaxFiles files.  Line 43 sets diff_only; the other setting of the flag,
\* which its comment documents, is a second build of the program.  The
\* standard library the program is linked with decides incomplete_ok.
DriverInit ==
    /\ argv \in {<<File(TRUE, m)>> : m \in Messages} \cup BSeq(FewFiles, MaxFiles)
    /\ diff_only \in BOOLEAN
    /\ incomplete_ok \in BOOLEAN
    /\ i = 1 /\ pc = "main" /\ status = -1
    /\ cout = <<>> /\ cerr = <<>> /\ attempted = <<>>
    /\ message = <<>> /\ new_message = <<>>
    /\ message_lines = <<>> /\ new_message_lines = <<>>

\* lines 203-205: one iteration of main's loop, the whole of process_file.
\* Once a call has undefined behaviour the run is left in "undefined",
\* which stands for whatever the build does from there (the libstdc++
\* build dies of a segmentation fault): main's loop is not continued.
ProcessFile ==
    /\ pc = "main"
    /\ i < argc
    /\ LET e == process_file(i, argv[i]) IN
        /\ attempted' = Append(attempted, i)
        /\ cout' = cout \o e.out
        /\ cerr' = cerr \o e.err
        /\ message' = e.message
        /\ new_message' = e.new_message
        /\ message_lines' = e.message_lines
        /\ new_message_lines' = e.new_message_lines
        /\ IF e.undefined THEN pc' = "undefined" /\ i' = i
           ELSE pc' = "main" /\ i' = i + 1
    /\ UNCHANGED <<argv, status, diff_only, incomplete_ok, gvars, tvars>>

\* line 207
Return ==
    /\ pc = "main"
    /\ ~(i < argc)
    /\ pc' = "done"
    /\ status' = 0
    /\ UNCHANGED <<argv, i, cout, cerr, attempted, diff_only, incomplete_ok, message, new_message,
                   message_lines, new_message_lines, gvars, tvars>>

Init == DriverInit /\ CountIdle /\ TableIdle

Next == ProcessFile \/ Return

Spec == Init /\ [][Next]_vars

---------------------------------------------------------------------------
(* get_grapheme_count, one iteration of its outer loop per step.           *)

CountInit ==
    /\ s \in BSeq(CountBytes, MaxBytes)
    /\ it = 0 /\ n = 0 /\ gpc = "loop"

\* lines 128-139 with `it` inside the string
CountIter ==
    /\ gpc = "loop"
    /\ it < Len(s)
    /\ it' = it + Advance(s[it + 1])
    /\ n' = n + 1
    /\ UNCHANGED <<s, gpc, dvars, tvars>>

\* line 141: the loop test fails
CountReturn ==
    /\ gpc = "loop"
    /\ it = Len(s)
    /\ gpc' = "returned"
    /\ UNCHANGED <<s, it, n, dvars, tvars>>

\* `it` is past s.end(): the test of line 128 holds and line 131 reads a
\* byte that is not part of the string.  The read faults, or it yields
\* whatever byte lies there and the loop goes on.
CountOverread ==
    /\ gpc = "loop"
    /\ it > Len(s)
    /\ \/ /\ gpc' = "crashed"
          /\ UNCHANGED <<it, n>>
       \/ /\ it < Len(s) + MaxOverread
          /\ \E byte \in 0..255 :
                /\ it' = it + Advance(byte)
                /\ n' = n + 1
          /\ UNCHANGED gpc
    /\ UNCHANGED <<s, dvars, tvars>>

InitCount == DriverIdle /\ CountInit /\ TableIdle

NextCount == CountIter \/ CountReturn \/ CountOverread

SpecCount == InitCount /\ [][NextCount]_vars

---------------------------------------------------------------------------
(* cp437_to_unicode applied to one argument.                               *)

TableInit == arg \in 0..MaxCode /\ ret = 0 /\ tpc = "call"

Lookup ==
    /\ tpc = "call"
    /\ ret' = cp437_to_unicode(arg)
    /\ tpc' = "returned"
    /\ UNCHANGED <<arg, dvars, gvars>>

InitTable == DriverIdle /\ CountIdle /\ TableInit

NextTable == Lookup

SpecTable == InitTable /\ [][NextTable]_vars

---------------------------------------------------------------------------
(* Properties.                                                             *)

\* Code page 437 as published: byte 0x00..0xFF to the code point of its
\* glyph (0x00 as SYMBOL FOR NULL), eight bytes to a line.
CP437 ==
  <<
     9216, 9786, 9787, 9829, 9830, 9827, 9824, 8226,
     9688, 9675, 9689, 9794, 9792, 9834, 9835, 9788,
     9658, 9668, 8597, 8252, 182, 167, 9644, 8616,
     8593, 8595, 8594, 8592, 8735, 8596, 9650, 9660,
     32, 33, 34, 35, 36, 37, 38, 39,
     40, 41, 42, 43, 44, 45, 46, 47,
     48, 49, 50, 51, 52, 53, 54, 55,
     56, 57, 58, 59, 60, 61, 62, 63,
     64, 65, 66, 67, 68, 69, 70, 71,
     72, 73, 74, 75, 76, 77, 78, 79,
     80, 81, 82, 83, 84, 85, 86, 87,
     88, 89, 90, 91, 92, 93, 94, 95,
     96, 97, 98, 99, 100, 101, 102, 103,
     104, 105, 106, 107, 108, 109, 110, 111,
     112, 113, 114, 115, 116, 117, 118, 119,
     120, 121, 122, 123, 124, 125, 126, 8962,
     199, 252, 233, 226, 228, 224, 229, 231,
     234, 235, 232, 239, 238, 236, 196, 197,
     201, 230, 198, 244, 246, 242, 251, 249,
     255, 214, 220, 162, 163, 165, 8359, 402,
     225, 237, 243, 250, 241, 209, 170, 186,
     191, 8976, 172, 189, 188, 161, 171, 187,
     9617, 9618, 9619, 9474, 9508, 9569, 9570, 9558,
     9557, 9571, 9553, 9559, 9565, 9564, 9563, 9488,
     9492, 9524, 9516, 9500, 9472, 9532, 9566, 9567,
     9562, 9556, 9577, 9574, 9568, 9552, 9580, 9575,
     9576, 9572, 9573, 9561, 9560, 9554, 9555, 9579,
     9578, 9496, 9484, 9608, 9604, 9612, 9616, 9600,
     945, 223, 915, 960, 931, 963, 181, 964,
     934, 920, 937, 948, 8734, 966, 949, 8745,
     8801, 177, 8805, 8804, 8992, 8993, 247, 8776,
     176, 8729, 183, 8730, 8319, 178, 9632, 160
  >>

\* the bytes the table leaves alone: printable ASCII and '\n'
IdentityBytes == (32..126) \cup {NL}

\* the latest call of process_file, for the file it was given
Called == attempted # <<>>
LastFile == argv[attempted[Len(attempted)]]

\* whether the latest check_messages got as far as splitting both messages
SplitBoth ==
    /\ Called /\ LastFile.parse_ok
    /\ message # <<>>
    /\ utf8_to_codepoints(message).ok

\* well-formed UTF-8: every character complete, no overlong form, no
\* surrogate, nothing above U+10FFFF; the same for every standard library
WellFormed(b) ==
    LET d == from_bytes(b, 1, FALSE) IN
    d.ok /\ \A k \in 1..Len(d.cps) : d.cps[k] \notin 55296..57343

\* the encoded characters of a line: its bytes that are not continuation
\* bytes
Units(line) == Cardinality({k \in 1..Len(line) : ~IsCont(line[k])})

\* the j-th smallest member of a set of numbers is k
IsNth(set, j, k) == k \in set /\ Cardinality({m \in set : m <= k}) = j

\* C1: on every byte value cp437_to_unicode returns a value; on 0x20..0x7E
\* and on 0x0A it returns its argument; on every other byte it returns the
\* code point code page 437 gives the byte, which is neither the byte
\* itself nor 0x0A.
C1_TableAgreesWithCP437 ==
    (tpc = "returned" /\ arg \in 0..255) =>
        /\ ret \in 0..1114111
        /\ arg \in IdentityBytes => ret = arg
        /\ arg \notin IdentityBytes => (ret = CP437[arg + 1] /\ ret # arg /\ ret # NL)

C1_Witness == tpc = "returned" /\ arg = 255 /\ ret = 160

\* C2: a call of process_file for a module whose message is empty writes
\* nothing to std::cout or std::cerr; a call in which the converted
\* message equals the original writes nothing to std::cout; so does every
\* call for a message made of bytes 0x20..0x7E and 0x0A only.
C2_SilentWhenEmptyOrEqual ==
    [][(pc = "main" /\ attempted' # attempted /\ argv[i].parse_ok) =>
        /\ argv[i].message_raw = <<>> => (cout' = cout /\ cerr' = cerr)
        /\ new_message' = message' => cout' = cout
        /\ (\A k \in 1..Len(argv[i].message_raw) : argv[i].message_raw[k] \in IdentityBytes)
              => (cout' = cout /\ cerr' = cerr)]_vars

C2_Witness ==
    /\ Called /\ LastFile.parse_ok
    /\ message = <<97, 10, 97>>
    /\ new_message = message
    /\ cout = <<>> /\ cerr = <<>>

\* C3 as claimed: a message holding the raw byte 0x81 between two ASCII
\* characters produces, in the program as built (diff_only set), a row
\* whose left column is that line and whose right column has U+00FC
\* (0xC3 0xBC) in the place of the byte.
C3_RawByteRowClaimed ==
    (Called /\ diff_only /\ argv = <<File(TRUE, <<97, 129, 97>>)>>) =>
        \E k \in 1..Len(cout) :
            /\ cout[k].kind = "row"
            /\ cout[k].left = <<97, 129, 97>>
            /\ cout[k].right = <<97, 195, 188, 97>>

\* C3 amended: the row is written when the message holds U+0081 as UTF-8
\* (0xC2 0x81) between the two characters: header, the row with 77 spaces
\* of padding, blank line.  The lone byte 0x81 is not UTF-8: nothing goes to
\* std::cout and the failure of from_bytes goes to std::cerr.
C3_RowForEncodedByte ==
    /\ (Called /\ argv = <<File(TRUE, <<97, 194, 129, 97>>)>>) =>
          /\ cout = <<Header(1), Row(<<97, 194, 129, 97>>, 77, <<97, 195, 188, 97>>), Blank>>
          /\ cerr = <<>>
    /\ (Called /\ argv = <<File(TRUE, <<97, 129, 97>>)>>) =>
          /\ cout = <<>>
          /\ cerr = <<CantOpen(1, "wstring_convert::from_bytes")>>

C3_Witness ==
    /\ Called /\ diff_only
    /\ argv = <<File(TRUE, <<97, 194, 129, 97>>)>>
    /\ Len(cout) = 3

\* C4: a call that writes to std::cout writes the header first and then
\* rows for the line indices of the set below, in increasing order and
\* each pairing the original line with the converted line of its index;
\* when the call returns, there is a row for every index of the set and
\* the blank line ends the report.  The set is the indices at which the
\* lines differ when diff_only is set and every index when it is not: for
\* the message "a\n<U+0081>" that is line 2 alone, or both lines.
C4_RowsAreTheSelectedLines ==
    [][(pc = "main" /\ cout' # cout) =>
        LET added == SubSeq(cout', Len(cout) + 1, Len(cout'))
            returned == pc' = "main"
            rows == SubSeq(added, 2, Len(added) - (IF returned THEN 1 ELSE 0))
            shown == {k \in 1..Len(message_lines') :
                        ~diff_only \/ message_lines'[k] # new_message_lines'[k]}
        IN  /\ added[1] = Header(i)
            /\ Len(rows) <= Cardinality(shown)
            /\ \A j \in 1..Len(rows) :
                  /\ rows[j].kind = "row"
                  /\ \E k \in shown :
                        /\ IsNth(shown, j, k)
                        /\ rows[j].left = message_lines'[k]
                        /\ rows[j].right = new_message_lines'[k]
            /\ returned =>
                  /\ Len(added) >= 2
                  /\ added[Len(added)] = Blank
                  /\ Len(rows) = Cardinality(shown)
            /\ argv[i].message_raw = <<97, 10, 194, 129>> =>
                  [j \in 1..Len(rows) |-> rows[j].left]
                      = (IF diff_only THEN << <<194, 129>> >> ELSE << <<97>>, <<194, 129>> >>)
       ]_vars

C4_Witness ==
    /\ Called /\ diff_only
    /\ message = <<97, 10, 194, 129>>
    /\ Len(cout) = 3
    /\ cout[2].left = <<194, 129>>

\* C5: in the program as built, every row written for a well-formed
\* line carries exactly max(0, 80 - u) spaces of padding, u the number of
\* encoded characters of the line.
C5_PaddingByCharacters ==
    diff_only =>
        \A k \in 1..Len(cout) :
            (cout[k].kind = "row" /\ WellFormed(cout[k].left)) =>
                cout[k].padding =
                    (IF Units(cout[k].left) < Width THEN Width - Units(cout[k].left) ELSE 0)

\* C6: on a well-formed UTF-8 argument get_grapheme_count returns the
\* number of encoded characters.
C6_CountsCharacters ==
    (gpc = "returned" /\ WellFormed(s)) => n = Units(s)

\* C7: in the program as built, process_file has been called for the
\* arguments 1..i-1, once each and in order; main ends only after the last
\* argument and then with status 0; whatever std::cerr holds is a "can't
\* open <filename>: <reason>" for one of those arguments; nothing else
\* ends the run.
C7_EveryFileAttempted ==
    diff_only =>
        /\ pc \in {"main", "done"}
        /\ i <= argc
        /\ attempted = [k \in 1..(i - 1) |-> k]
        /\ status = (IF pc = "done" THEN 0 ELSE -1)
        /\ pc = "done" => Len(attempted) = Len(argv)
        /\ \A j \in 1..Len(cerr) :
              /\ cerr[j].text = "can't open "
              /\ cerr[j].filename \in 1..(i - 1)
              /\ cerr[j].what # ""

\* the byte string holds exactly one '\n'
OneNewline(m) == Cardinality({k \in 1..Len(m) : m[k] = NL}) = 1

\* the lines of a byte string with one '\n'
LinesOfOneNewline(m) == IF m[Len(m)] = NL THEN 1 ELSE 2

\* C8 as claimed: in the program as built, a well-formed message with
\* exactly one '\n' splits into two lines, original and converted alike.
C8_TwoLinesClaimed ==
    (SplitBoth /\ diff_only /\ WellFormed(message) /\ OneNewline(message)) =>
        (Len(message_lines) = 2 /\ Len(new_message_lines) = 2)

\* C8 amended: a message with exactly one '\n', original or converted,
\* splits into two lines when the '\n' is not its last byte and into one
\* line when it is; the converted message of a well-formed message with
\* one '\n' has one '\n' too and splits into as many lines.
C8_LinesOfOneNewline ==
    SplitBoth =>
        /\ OneNewline(message) => Len(message_lines) = LinesOfOneNewline(message)
        /\ OneNewline(new_message) => Len(new_message_lines) = LinesOfOneNewline(new_message)
        /\ (WellFormed(message) /\ OneNewline(message)) =>
              /\ OneNewline(new_message)
              /\ Len(new_message_lines) = Len(message_lines)

C8_Witness ==
    /\ SplitBoth
    /\ message = <<1, 10>>
    /\ Len(message_lines) = 1
    /\ Len(new_message_lines) = 1

\* C9: when a non-empty message is well-formed UTF-8, the converted
\* message has as many code points, has '\n' exactly where the original
\* has it, and splits into as many lines; "internal error: size mismatch"
\* is reported for no file whose message is well-formed.
C9_SameLineCount ==
    /\ \A k \in 1..Len(cerr) :
          cerr[k].what = "internal error: size mismatch"
              => ~WellFormed(argv[cerr[k].filename].message_raw)
    /\ (SplitBoth /\ WellFormed(message)) =>
        LET old == utf8_to_codepoints(message)
            new == utf8_to_codepoints(new_message)
        IN  /\ new.ok
            /\ Len(new.cps) = Len(old.cps)
            /\ \A k \in 1..Len(old.cps) : (old.cps[k] = NL) <=> (new.cps[k] = NL)
            /\ Len(message_lines) = Len(new_message_lines)

C9_Witness ==
    /\ SplitBoth
    /\ message = <<1, 10, 194, 129>>
    /\ new_message # message
    /\ Len(message_lines) = 2
    /\ Len(new_message_lines) = 2

\* C10: the iterator of get_grapheme_count never passes the end of its
\* argument and no read outside the argument happens.
C10_IteratorStaysInside == it <= Len(s) /\ gpc # "crashed"

=============================================================================
